---- MODULE Spec2Model ----
(***************************************************************************)
(* Funding-rate retrieval and reconciliation of PTR-25/FURRY.              *)
(*                                                                         *)
(* One run of the model is one call of one of the repository's functions,  *)
(* chosen by fn:                                                           *)
(*   "hyper"   funding_rates_arbitrage.get_hyperliquid_funding_history_    *)
(*             paginated                                                   *)
(*   "binance" funding_rates_arbitrage.get_binance_funding_history         *)
(*   "bcoll"   collectors.BinanceDataCollector.get_historical_funding_rates*)
(*   "hcoll"   collectors.HyperliquidDataCollector.                        *)
(*             get_historical_funding_rates                                *)
(*   "merge"   compare_funding_rates_over_time: the two retrievals, then   *)
(*             the merge loop with its annualization                       *)
(* A retriever step is one pass of the while loop: one request to the      *)
(* venue and the handling of its outcome.  A record is [time, rate]; the   *)
(* field time stands for "time" (Hyperliquid) and "fundingTime" (Binance). *)
(* Rates are integer multiples of 0.0001 (RateScale); an annualized         *)
(* difference is the exact fraction num / den.                             *)
(***************************************************************************)
EXTENDS Integers, Sequences, FiniteSets

VARIABLES
    fn,             \* the function this run executes
    source,         \* "arbitrary": any response; "archive": a faithful store
    store,          \* archive source: the timestamps of the records it holds
    cap,            \* archive source: its own page cap
    start_time,     \* argument start_time
    end_time,       \* argument end_time
    max_retries,    \* argument max_retries
    max_records,    \* argument max_records (limit, in the collectors)
    all_records,    \* local all_records
    current_start,  \* local current_start, the cursor
    retries,        \* local retries (retry_count, in get_binance_funding_history)
    pc,             \* "call" at the call of compare_funding_rates_over_time,
                    \* "loop" while in the while loop, "done" once returned,
                    \* "error" once an exception has left the function
    result,         \* the returned series
    attempts,       \* history: the number of requests issued
    kinds,          \* history: the outcomes seen, a subset of {"fail","empty","data"}
    streak,         \* history: the failures since the last successful response
    multiplier,     \* compare: argument multiplier
    hyper_funding_rate,    \* compare: the fundingRate of the venue-A records
    binance_funding_rate,  \* compare: the fundingRate of the venue-B records
    hyper_data,     \* merge: the venue-A series (timestamps)
    binance_data,   \* merge: the venue-B series (timestamps)
    i,              \* merge: index into hyper_data (0-based, as in the code)
    j,              \* merge: index into binance_data (0-based)
    results         \* merge: the emitted pairs

vars == <<fn, source, store, cap, start_time, end_time, max_retries, max_records,
          all_records, current_start, retries, pc, result, attempts, kinds, streak,
          multiplier, hyper_funding_rate, binance_funding_rate,
          hyper_data, binance_data, i, j, results>>

retrieverVars == <<source, store, cap, start_time, end_time, max_retries, max_records,
                   all_records, current_start, retries, result, attempts, kinds, streak>>

compareArgs == <<multiplier, hyper_funding_rate, binance_funding_rate>>

mergeVars == <<compareArgs, hyper_data, binance_data, i, j, results>>

----------------------------------------------------------------------------
(* Bounds of the model *)

MaxDays == 2        \* the longest window, in days
MaxRetries == 1     \* the largest max_retries
MaxPage == 2        \* the longest page an arbitrary source returns
MaxAll == 3         \* the most records accumulated in one run
MaxRequests == 4    \* the most requests issued in one run
MaxLen == 2         \* the longest input series of the merge loop

----------------------------------------------------------------------------
(* Program constants *)

TIME_TOLERANCE_MS == 300000

OneDayMs == 24 * 60 * 60 * 1000

----------------------------------------------------------------------------
(* Inputs *)

StartTimes == {0, 1}

EndTimes == {0, 1} \cup {d * OneDayMs : d \in 1..MaxDays}

RecTimes == {0, 1, OneDayMs}

Rates == {1}

Records == [time : RecTimes, rate : Rates]

RECURSIVE SeqsUpTo(_, _)
SeqsUpTo(S, n) ==
    IF n = 0 THEN {<<>>}
    ELSE LET shorter == SeqsUpTo(S, n - 1)
         IN  shorter \cup {Append(s, x) : s \in {t \in shorter : Len(t) = n - 1}, x \in S}

Retrievers == {"hyper", "binance", "bcoll", "hcoll"}

Outcomes == {"fail", "empty", "data"}

----------------------------------------------------------------------------
(* Helpers *)

Last(s) == s[Len(s)]

Front(s) == SubSeq(s, 1, Len(s) - 1)

Min(a, b) == IF a <= b THEN a ELSE b

Abs(x) == IF x < 0 THEN -x ELSE x

(* list.sort(key=lambda x: x["time"]): a stable sort, ascending by time.    *)
(* InsertByTime puts r behind every record whose time is not larger.        *)
RECURSIVE InsertByTime(_, _)
InsertByTime(r, s) ==
    IF s = <<>> THEN <<r>>
    ELSE IF Last(s).time <= r.time THEN Append(s, r)
    ELSE Append(InsertByTime(r, Front(s)), Last(s))

RECURSIVE InsertionSort(_)
InsertionSort(s) ==
    IF s = <<>> THEN <<>> ELSE InsertByTime(Last(s), InsertionSort(Front(s)))

(* Faulty variant of SortByTime: the series is returned as accumulated. *)
SortByTimeOmitted(s) == s

SortByTime(s) == InsertionSort(s)

----------------------------------------------------------------------------
(* The venue, as the retrievers see it through requests.get / requests.post *)

RECURSIVE Ascending(_)
Ascending(S) ==
    IF S = {} THEN <<>>
    ELSE LET m == CHOOSE x \in S : \A y \in S : x <= y
         IN  <<[time |-> m, rate |-> 1]>> \o Ascending(S \ {m})

(* The archive's answer to a request [cursor, end_time]: its earliest       *)
(* records in that range, ascending, at most cap of them.                   *)
ArchivePage(cursor) ==
    LET inRange == Ascending({t \in store : cursor <= t /\ t <= end_time})
    IN  SubSeq(inRange, 1, Min(cap, Len(inRange)))

(* The pages the venue may answer the next request with. *)
Pages ==
    IF source = "archive" THEN {ArchivePage(current_start)}
    ELSE {p \in SeqsUpTo(Records, MaxPage) : Len(all_records) + Len(p) <= MaxAll}

MayFail == source = "arbitrary"

----------------------------------------------------------------------------
(* Steps shared by the four retrievers *)

(* while current_start <= end_time: the loop is entered for one more request *)
Requesting(f) ==
    /\ fn = f
    /\ pc = "loop"
    /\ current_start <= end_time
    /\ attempts < MaxRequests

Observed(kind) ==
    /\ attempts' = attempts + 1
    /\ kinds' = kinds \cup {kind}
    /\ streak' = IF kind = "fail" THEN streak + 1 ELSE 0

Returned(records) ==
    /\ pc' = "done"
    /\ result' = SortByTime(records)

Continue ==
    /\ pc' = "loop"
    /\ result' = result

(* the loop test fails: all_records.sort(...); return all_records *)
LoopExit(f) ==
    /\ fn = f
    /\ pc = "loop"
    /\ current_start > end_time
    /\ Returned(all_records)
    /\ UNCHANGED <<fn, source, store, cap, start_time, end_time, max_retries,
                   max_records, all_records, current_start, retries, attempts, kinds,
                   streak>>
    /\ UNCHANGED mergeVars

params == <<fn, source, store, cap, start_time, end_time, max_retries, max_records>>

----------------------------------------------------------------------------
(* get_hyperliquid_funding_history_paginated *)

(* Faulty variant of HyperBudgetExceeded: the budget test is off by one. *)
HyperBudgetExceededAtLimit(r, m) == r >= m

HyperBudgetExceeded(r, m) == r > m

(* Faulty variant of HyperGapAdvance: the probe interval is one hour. *)
HyperGapAdvanceOneHour(cursor) == cursor + 60 * 60 * 1000

HyperGapAdvance(cursor) == cursor + OneDayMs

(* Faulty variant of HyperPageIsFull: a page of exactly max_records is short. *)
HyperPageIsFullStrict(data, m) == Len(data) > m

HyperPageIsFull(data, m) == Len(data) >= m

HyperNextCursor(data) == Last(data).time + 1

(* Faulty variant of HyperFail: a failure skips one day, as a gap does. *)
HyperFailSkipping ==
    /\ Requesting("hyper")
    /\ MayFail
    /\ retries' = retries + 1
    /\ current_start' = HyperGapAdvance(current_start)
    /\ IF HyperBudgetExceeded(retries + 1, max_retries)
       THEN Returned(all_records)
       ELSE Continue
    /\ Observed("fail")
    /\ UNCHANGED all_records
    /\ UNCHANGED params
    /\ UNCHANGED mergeVars

(* except Exception: retries += 1; break when retries > max_retries *)
HyperFail ==
    /\ Requesting("hyper")
    /\ MayFail
    /\ retries' = retries + 1
    /\ IF HyperBudgetExceeded(retries + 1, max_retries)
       THEN Returned(all_records)
       ELSE Continue
    /\ Observed("fail")
    /\ UNCHANGED <<all_records, current_start>>
    /\ UNCHANGED params
    /\ UNCHANGED mergeVars

(* if not data: current_start += one day; continue *)
HyperEmpty ==
    /\ Requesting("hyper")
    /\ <<>> \in Pages
    /\ current_start' = HyperGapAdvance(current_start)
    /\ Continue
    /\ Observed("empty")
    /\ UNCHANGED <<all_records, retries>>
    /\ UNCHANGED params
    /\ UNCHANGED mergeVars

(* a non-empty page: extend; a full page moves the cursor, a short one ends *)
HyperData ==
    /\ Requesting("hyper")
    /\ \E data \in Pages \ {<<>>} :
        /\ all_records' = all_records \o data
        /\ IF HyperPageIsFull(data, max_records)
           THEN /\ current_start' = HyperNextCursor(data)
                /\ retries' = 0
                /\ Continue
           ELSE /\ Returned(all_records \o data)
                /\ UNCHANGED <<current_start, retries>>
    /\ Observed("data")
    /\ UNCHANGED params
    /\ UNCHANGED mergeVars

HyperReturn == LoopExit("hyper")

----------------------------------------------------------------------------
(* get_binance_funding_history *)

BinanceBudgetExceeded(r, m) == r > m

BinanceNextCursor(data) == Last(data).time + 1

(* except Exception: time.sleep(2); continue *)
BinanceFail ==
    /\ Requesting("binance")
    /\ MayFail
    /\ Continue
    /\ Observed("fail")
    /\ UNCHANGED <<all_records, current_start, retries>>
    /\ UNCHANGED params
    /\ UNCHANGED mergeVars

(* if not data: retry_count += 1; break when retry_count > max_retries *)
BinanceEmpty ==
    /\ Requesting("binance")
    /\ <<>> \in Pages
    /\ retries' = retries + 1
    /\ IF BinanceBudgetExceeded(retries + 1, max_retries)
       THEN Returned(all_records)
       ELSE Continue
    /\ Observed("empty")
    /\ UNCHANGED <<all_records, current_start>>
    /\ UNCHANGED params
    /\ UNCHANGED mergeVars

(* a non-empty page: retry_count = 0; extend; the cursor passes the last record *)
BinanceData ==
    /\ Requesting("binance")
    /\ \E data \in Pages \ {<<>>} :
        /\ retries' = 0
        /\ all_records' = all_records \o data
        /\ current_start' = BinanceNextCursor(data)
    /\ Continue
    /\ Observed("data")
    /\ UNCHANGED params
    /\ UNCHANGED mergeVars

BinanceReturn == LoopExit("binance")

----------------------------------------------------------------------------
(* BinanceDataCollector.get_historical_funding_rates *)

BCollGapAdvance(cursor) == cursor + OneDayMs

BCollNextCursor(data) == Last(data).time + 1

(* except Exception: print; break *)
BCollFail ==
    /\ Requesting("bcoll")
    /\ MayFail
    /\ Returned(all_records)
    /\ Observed("fail")
    /\ UNCHANGED <<all_records, current_start, retries>>
    /\ UNCHANGED params
    /\ UNCHANGED mergeVars

BCollEmpty ==
    /\ Requesting("bcoll")
    /\ <<>> \in Pages
    /\ current_start' = BCollGapAdvance(current_start)
    /\ Continue
    /\ Observed("empty")
    /\ UNCHANGED <<all_records, retries>>
    /\ UNCHANGED params
    /\ UNCHANGED mergeVars

BCollData ==
    /\ Requesting("bcoll")
    /\ \E data \in Pages \ {<<>>} :
        /\ all_records' = all_records \o data
        /\ current_start' = BCollNextCursor(data)
    /\ Continue
    /\ Observed("data")
    /\ UNCHANGED retries
    /\ UNCHANGED params
    /\ UNCHANGED mergeVars

BCollReturn == LoopExit("bcoll")

----------------------------------------------------------------------------
(* HyperliquidDataCollector.get_historical_funding_rates *)

HCollGapAdvance(cursor) == cursor + OneDayMs

HCollPageIsFull(data, limit) == Len(data) >= limit

HCollNextCursor(data) == Last(data).time + 1

(* except Exception: print; break *)
HCollFail ==
    /\ Requesting("hcoll")
    /\ MayFail
    /\ Returned(all_records)
    /\ Observed("fail")
    /\ UNCHANGED <<all_records, current_start, retries>>
    /\ UNCHANGED params
    /\ UNCHANGED mergeVars

HCollEmpty ==
    /\ Requesting("hcoll")
    /\ <<>> \in Pages
    /\ current_start' = HCollGapAdvance(current_start)
    /\ Continue
    /\ Observed("empty")
    /\ UNCHANGED <<all_records, retries>>
    /\ UNCHANGED params
    /\ UNCHANGED mergeVars

HCollData ==
    /\ Requesting("hcoll")
    /\ \E data \in Pages \ {<<>>} :
        /\ all_records' = all_records \o data
        /\ IF HCollPageIsFull(data, max_records)
           THEN /\ current_start' = HCollNextCursor(data)
                /\ Continue
           ELSE /\ Returned(all_records \o data)
                /\ UNCHANGED current_start
    /\ Observed("data")
    /\ UNCHANGED retries
    /\ UNCHANGED params
    /\ UNCHANGED mergeVars

HCollReturn == LoopExit("hcoll")

----------------------------------------------------------------------------
(* The merge loop of compare_funding_rates_over_time.  hyper_data and       *)
(* binance_data hold the records' timestamps; i and j count from 0 as in    *)
(* the code, so hyper_data[i] of the code is hyper_data[i + 1] here.        *)

MergeTimes == {0, TIME_TOLERANCE_MS, TIME_TOLERANCE_MS + 1, 2 * TIME_TOLERANCE_MS + 1}

(* The series of the scenario of spec section 8. *)
ScenarioHyper == <<1000, 5000>>

ScenarioBinance == <<1100, 5100>>

(* The pairs of series the two retrievals may hand to the merge loop. *)
MergeInputs ==
    (SeqsUpTo(MergeTimes, MaxLen) \X SeqsUpTo(MergeTimes, MaxLen))
        \cup {<<ScenarioHyper, ScenarioBinance>>}

Multipliers == {-1, 0, 5, 8}

HyperRates == {-2, 1}

BinanceRates == {-1, 3}

RateScale == 10000

(* hyper_data = get_hyperliquid_funding_history_paginated(...);             *)
(* binance_data = get_binance_funding_history(...); results = []; i, j = 0  *)
(* The arguments are not examined before the two retrievals, and each       *)
(* retrieval issues requests (its window ends now and starts days earlier). *)
CompareRetrieve ==
    /\ fn = "merge"
    /\ pc = "call"
    /\ \E p \in MergeInputs :
        /\ hyper_data' = p[1]
        /\ binance_data' = p[2]
    /\ pc' = "loop"
    /\ UNCHANGED <<fn, compareArgs, i, j, results>>
    /\ UNCHANGED retrieverVars

hyper_time == hyper_data[i + 1]

binance_time == binance_data[j + 1]

(* while i < len(hyper_data) and j < len(binance_data) *)
Merging ==
    /\ fn = "merge"
    /\ pc = "loop"
    /\ i < Len(hyper_data)
    /\ j < Len(binance_data)

(* Faulty variant of WithinTolerance: the difference is taken signed. *)
WithinToleranceSigned(a, b) == a - b <= TIME_TOLERANCE_MS

WithinTolerance(a, b) == Abs(a - b) <= TIME_TOLERANCE_MS

(* Faulty variants of MatchAdvance: a match consumes one pointer only. *)
MatchAdvanceHyperOnly(ii, jj) == <<ii + 1, jj>>

MatchAdvanceBinanceOnly(ii, jj) == <<ii, jj + 1>>

(* Faulty variant of MatchAdvance: a match consumes neither pointer. *)
MatchAdvanceNone(ii, jj) == <<ii, jj>>

MatchAdvance(ii, jj) == <<ii + 1, jj + 1>>

(* Faulty variant of SkipsHyper: the later record is the one skipped. *)
SkipsHyperReversed(a, b) == a > b

SkipsHyper(a, b) == a < b

(* Faulty variant of HyperAdjusted: the hourly rate is not scaled. *)
HyperAdjustedUnscaled(rate, m) == rate

(* hyper_adjusted = hyper_rate * multiplier *)
HyperAdjusted(rate, m) == rate * m

(* diff_rate = hyper_adjusted - binance_rate *)
DiffRate(adjusted, rate) == adjusted - rate

(* annualized_diff = diff_rate * (24/multiplier * 365) * 100, with diff_rate *)
(* in units of 1 / RateScale: the fraction num / den                         *)
AnnualizedDiff(diff, m) == [num |-> diff * 24 * 365 * 100, den |-> m * RateScale]

(* if abs(hyper_time - binance_time) <= TIME_TOLERANCE_MS: append; i += 1; j += 1 *)
MergeMatch ==
    /\ Merging
    /\ WithinTolerance(hyper_time, binance_time)
    /\ multiplier # 0
    /\ LET hyper_adjusted == HyperAdjusted(hyper_funding_rate, multiplier)
           diff_rate == DiffRate(hyper_adjusted, binance_funding_rate)
       IN  results' = Append(results, [i |-> i, j |-> j,
                                       hyper_time |-> hyper_time,
                                       binance_time |-> binance_time,
                                       hyper_rate |-> hyper_funding_rate,
                                       hyper_adjusted |-> hyper_adjusted,
                                       binance_rate |-> binance_funding_rate,
                                       annualized_diff |->
                                           AnnualizedDiff(diff_rate, multiplier)])
    /\ i' = MatchAdvance(i, j)[1]
    /\ j' = MatchAdvance(i, j)[2]
    /\ UNCHANGED <<fn, pc, hyper_data, binance_data, compareArgs>>
    /\ UNCHANGED retrieverVars

(* a match with multiplier = 0: 24/multiplier raises ZeroDivisionError *)
MergeMatchDivideByZero ==
    /\ Merging
    /\ WithinTolerance(hyper_time, binance_time)
    /\ multiplier = 0
    /\ pc' = "error"
    /\ UNCHANGED <<fn, hyper_data, binance_data, compareArgs, i, j, results>>
    /\ UNCHANGED retrieverVars

(* elif hyper_time < binance_time: i += 1 *)
MergeSkipHyper ==
    /\ Merging
    /\ ~WithinTolerance(hyper_time, binance_time)
    /\ SkipsHyper(hyper_time, binance_time)
    /\ i' = i + 1
    /\ UNCHANGED <<fn, pc, hyper_data, binance_data, compareArgs, j, results>>
    /\ UNCHANGED retrieverVars

(* else: j += 1 *)
MergeSkipBinance ==
    /\ Merging
    /\ ~WithinTolerance(hyper_time, binance_time)
    /\ ~SkipsHyper(hyper_time, binance_time)
    /\ j' = j + 1
    /\ UNCHANGED <<fn, pc, hyper_data, binance_data, compareArgs, i, results>>
    /\ UNCHANGED retrieverVars

(* the loop test fails: df = pd.DataFrame(results); return df *)
MergeReturn ==
    /\ fn = "merge"
    /\ pc = "loop"
    /\ ~(i < Len(hyper_data) /\ j < Len(binance_data))
    /\ pc' = "done"
    /\ UNCHANGED <<fn, hyper_data, binance_data, compareArgs, i, j, results>>
    /\ UNCHANGED retrieverVars

----------------------------------------------------------------------------
(* The state at the call: the arguments, and the locals as initialised      *)
(* before the loop.                                                         *)

InitRetriever ==
    /\ fn \in Retrievers
    /\ \/ /\ source = "arbitrary"
          /\ store = {}
          /\ cap = 0
       \/ /\ fn = "hyper"
          /\ source = "archive"
          /\ store \in SUBSET RecTimes
          /\ cap \in 1..MaxPage
    /\ start_time \in StartTimes
    /\ end_time \in EndTimes
    /\ max_retries \in IF fn \in {"hyper", "binance"} THEN 0..MaxRetries ELSE {0}
    /\ max_records \in IF fn \in {"hyper", "hcoll"} THEN 1..MaxPage ELSE {0}
    /\ pc = "loop"
    /\ multiplier = 0
    /\ hyper_funding_rate = 0
    /\ binance_funding_rate = 0

InitMerge ==
    /\ fn = "merge"
    /\ source = "arbitrary"
    /\ store = {}
    /\ cap = 0
    /\ start_time = 0
    /\ end_time = 0
    /\ max_retries = 0
    /\ max_records = 0
    /\ pc = "call"
    /\ multiplier \in Multipliers
    /\ hyper_funding_rate \in HyperRates
    /\ binance_funding_rate \in BinanceRates

Init ==
    /\ (InitRetriever \/ InitMerge)
    /\ all_records = <<>>
    /\ current_start = start_time
    /\ retries = 0
    /\ result = <<>>
    /\ attempts = 0
    /\ kinds = {}
    /\ streak = 0
    /\ hyper_data = <<>>
    /\ binance_data = <<>>
    /\ i = 0
    /\ j = 0
    /\ results = <<>>

Next ==
    \/ HyperFail
    \/ HyperEmpty
    \/ HyperData
    \/ HyperReturn
    \/ BinanceFail
    \/ BinanceEmpty
    \/ BinanceData
    \/ BinanceReturn
    \/ BCollFail
    \/ BCollEmpty
    \/ BCollData
    \/ BCollReturn
    \/ HCollFail
    \/ HCollEmpty
    \/ HCollData
    \/ HCollReturn
    \/ CompareRetrieve
    \/ MergeMatch
    \/ MergeMatchDivideByZero
    \/ MergeSkipHyper
    \/ MergeSkipBinance
    \/ MergeReturn

Spec == Init /\ [][Next]_vars

----------------------------------------------------------------------------
(* Properties *)

OnlyFailures == kinds \subseteq {"fail"}

OnlyEmptyPages == kinds \subseteq {"empty"}

WindowDays == (end_time - start_time) \div OneDayMs

IsSortedByTime(s) == \A k \in 1..(Len(s) - 1) : s[k].time <= s[k + 1].time

IsAscending(s) == \A k \in 1..(Len(s) - 1) : s[k] <= s[k + 1]

(* C1: when every request of get_binance_funding_history fails, it stops    *)
(* after exactly max_retries + 1 attempts and returns the empty series.     *)
C1_BinanceFailuresExhaustBudget ==
    (fn = "binance" /\ start_time <= end_time /\ OnlyFailures) =>
        /\ attempts <= max_retries + 1
        /\ (attempts = max_retries + 1) <=> (pc = "done")
        /\ pc = "done" => result = <<>>

(* C2: when every request of get_hyperliquid_funding_history_paginated      *)
(* fails (window start_time <= end_time), it issues exactly max_retries + 1 *)
(* requests, each with the cursor at start_time, then returns the empty     *)
(* series.                                                                  *)
C2_HyperFailuresExhaustBudget ==
    (fn = "hyper" /\ start_time <= end_time /\ OnlyFailures) =>
        /\ current_start = start_time
        /\ attempts <= max_retries + 1
        /\ (attempts = max_retries + 1) <=> (pc = "done")
        /\ pc = "done" => result = <<>>

C2_Witness ==
    /\ fn = "hyper"
    /\ pc = "done"
    /\ kinds = {"fail"}
    /\ max_retries >= 1
    /\ attempts = max_retries + 1

(* C3, as stated: with only empty pages, the number of requests of          *)
(* get_hyperliquid_funding_history_paginated and of the two collectors is   *)
(* at most (end_time - start_time) / one day.                               *)
C3_EmptyPagesWithinWindowDays ==
    (fn \in {"hyper", "bcoll", "hcoll"} /\ start_time <= end_time /\ OnlyEmptyPages) =>
        /\ attempts <= WindowDays
        /\ pc = "done" => result = <<>>

(* C3, amended: with only empty pages, the three retrievers issue one       *)
(* request per day of the window, floor((end_time - start_time) / one day)  *)
(* + 1 in all, the cursor moving one day per request, and return the empty  *)
(* series.                                                                  *)
C3_EmptyPagesWithinWindowDaysPlusOne ==
    (fn \in {"hyper", "bcoll", "hcoll"} /\ start_time <= end_time /\ OnlyEmptyPages) =>
        /\ attempts <= WindowDays + 1
        /\ current_start = start_time + attempts * OneDayMs
        /\ all_records = <<>>
        /\ pc = "done" => (result = <<>> /\ attempts = WindowDays + 1)

C3_Witness ==
    /\ fn = "hyper"
    /\ pc = "done"
    /\ kinds = {"empty"}
    /\ attempts = WindowDays + 1
    /\ attempts >= 2

(* C4: in get_binance_funding_history an empty page is a data gap: the      *)
(* cursor moves on by one day, the retry counter is left alone, and empty   *)
(* pages alone never end the retrieval before the window is covered.        *)
C4_BinanceEmptyPageIsGap ==
    (fn = "binance" /\ OnlyEmptyPages) =>
        /\ current_start = start_time + attempts * OneDayMs
        /\ retries = 0
        /\ pc = "done" => current_start > end_time

(* C5: the series returned by get_hyperliquid_funding_history_paginated and *)
(* by get_binance_funding_history is sorted by timestamp ascending.         *)
C5_ReturnedSeriesSorted ==
    (fn \in {"hyper", "binance"} /\ pc = "done") => IsSortedByTime(result)

C5_Witness ==
    /\ fn = "binance"
    /\ pc = "done"
    /\ "fail" \in kinds
    /\ Len(result) >= 2
    /\ result # all_records
    /\ result[1].time < result[Len(result)].time

(* C6: the series returned by the retrievers holds at most one record per   *)
(* timestamp.                                                               *)
C6_NoDuplicateTimestamps ==
    (fn \in {"hyper", "binance"} /\ pc = "done") =>
        \A k, l \in 1..Len(result) : k # l => result[k].time # result[l].time

(* C7: from a failure-free archive, get_hyperliquid_funding_history_        *)
(* paginated returns every record of the archive that lies in the window,   *)
(* whatever the archive's page cap and max_records.                         *)
C7_ArchiveFullyRetrieved ==
    (fn = "hyper" /\ source = "archive" /\ pc = "done") =>
        \A t \in store :
            (start_time <= t /\ t <= end_time) =>
                \E k \in 1..Len(result) : result[k].time = t

(* C8: every pair the merge loop emits is within TIME_TOLERANCE_MS.         *)
C8_PairsWithinTolerance ==
    fn = "merge" =>
        \A k \in 1..Len(results) :
            /\ results[k].hyper_time = hyper_data[results[k].i + 1]
            /\ results[k].binance_time = binance_data[results[k].j + 1]
            /\ Abs(results[k].hyper_time - results[k].binance_time) <= TIME_TOLERANCE_MS

C8_Witness ==
    /\ fn = "merge"
    /\ pc = "done"
    /\ IsAscending(hyper_data)
    /\ IsAscending(binance_data)
    /\ Len(results) = 1
    /\ Len(hyper_data) = 2
    /\ results[1].binance_time - results[1].hyper_time = TIME_TOLERANCE_MS

(* C9: each index of hyper_data and each index of binance_data is in at     *)
(* most one emitted pair.                                                   *)
C9_NoRecordReused ==
    fn = "merge" =>
        \A k, l \in 1..Len(results) :
            k # l => (results[k].i # results[l].i /\ results[k].j # results[l].j)

C9_Witness ==
    /\ fn = "merge"
    /\ pc = "done"
    /\ IsAscending(hyper_data)
    /\ IsAscending(binance_data)
    /\ Len(results) >= 2
    /\ hyper_data[1] = hyper_data[2]
    /\ binance_data[1] < binance_data[2]

(* C10: with both inputs sorted ascending, the emitted pairs are in         *)
(* ascending order of the venue-A timestamp, with strictly increasing       *)
(* indices into both series.                                                *)
C10_PairsInOrder ==
    (fn = "merge" /\ IsAscending(hyper_data) /\ IsAscending(binance_data)) =>
        \A k, l \in 1..Len(results) :
            k < l =>
                /\ results[k].i < results[l].i
                /\ results[k].j < results[l].j
                /\ results[k].hyper_time <= results[l].hyper_time

C10_Witness ==
    /\ fn = "merge"
    /\ pc = "done"
    /\ IsAscending(hyper_data)
    /\ IsAscending(binance_data)
    /\ Len(results) >= 2
    /\ results[1].hyper_time < results[2].hyper_time

ScenarioGiven ==
    /\ fn = "merge"
    /\ pc # "call"
    /\ hyper_data = ScenarioHyper
    /\ binance_data = ScenarioBinance

ScenarioExpected ==
    <<[hyper_time |-> 1000, binance_time |-> 1100],
      [hyper_time |-> 5000, binance_time |-> 5100]>>

(* C11: on hyper_data times [1000, 5000] and binance_data times             *)
(* [1100, 5100] the merge loop emits exactly the pairs (1000, 1100) and     *)
(* (5000, 5100), in this order; each is within 300 ms, so within the        *)
(* scenario's tolerance as well as within TIME_TOLERANCE_MS.                *)
C11_ScenarioPairs ==
    (ScenarioGiven /\ multiplier # 0) =>
        /\ pc # "error"
        /\ Len(results) <= 2
        /\ \A k \in 1..Len(results) :
            /\ results[k].hyper_time = ScenarioExpected[k].hyper_time
            /\ results[k].binance_time = ScenarioExpected[k].binance_time
            /\ Abs(results[k].hyper_time - results[k].binance_time) <= 300
        /\ pc = "done" => Len(results) = 2

C11_Witness ==
    /\ ScenarioGiven
    /\ pc = "done"
    /\ multiplier = 8
    /\ Len(results) = 2
    /\ results[2].i = 1
    /\ results[2].j = 1

NoPairWithinTolerance ==
    \A a \in 1..Len(hyper_data), b \in 1..Len(binance_data) :
        Abs(hyper_data[a] - binance_data[b]) > TIME_TOLERANCE_MS

(* C12: when a series is empty, or no venue-A record is within the          *)
(* tolerance of any venue-B record, the merge loop emits nothing, raises    *)
(* nothing, and goes on by skips alone until it returns.                    *)
C12_NoMatchEmptyResult ==
    (/\ fn = "merge"
     /\ pc # "call"
     /\ (hyper_data = <<>> \/ binance_data = <<>> \/ NoPairWithinTolerance)) =>
        /\ results = <<>>
        /\ pc # "error"
        /\ i <= Len(hyper_data)
        /\ j <= Len(binance_data)
        /\ pc = "loop" => ENABLED (MergeSkipHyper \/ MergeSkipBinance \/ MergeReturn)

C12_Witness ==
    /\ fn = "merge"
    /\ pc = "done"
    /\ Len(hyper_data) = 2
    /\ Len(binance_data) = 2
    /\ NoPairWithinTolerance
    /\ multiplier = 0
    /\ i + j >= 2
    /\ results = <<>>

StoppedOnFailure ==
    /\ pc = "done"
    /\ \/ fn = "hyper" /\ retries > max_retries
       \/ fn \in {"bcoll", "hcoll"} /\ streak > 0

(* C13: a retriever that stopped on failure returns a value that differs    *)
(* from the one a run returns that left the loop by its test with the same  *)
(* accumulated records, which is those records sorted.                      *)
C13_EarlyStopSignalled ==
    StoppedOnFailure => result # SortByTime(all_records)

(* C14: with multiplier <= 0, compare_funding_rates_over_time never gets    *)
(* past its call: no retrieval, no merge loop, no result table.             *)
C14_NonPositiveMultiplierRejected ==
    (fn = "merge" /\ multiplier <= 0) => pc = "call"

(* C15: a retriever called with start_time > end_time does not return a     *)
(* series.                                                                  *)
C15_InvertedWindowRejected ==
    (fn \in {"hyper", "binance"} /\ start_time > end_time) => pc # "done"

(* C16: for multiplier > 0 every pair's annualized difference is            *)
(* (rate_a * multiplier - rate_b) * (24 / multiplier * 365) * 100, that is  *)
(* (in units of 1 / RateScale) diff * 438 / (5 * multiplier); rates 0.0001  *)
(* and 0.0003 with multiplier 8 give 54.75.                                 *)
C16_AnnualizedDifference ==
    (fn = "merge" /\ multiplier > 0) =>
        \A k \in 1..Len(results) :
            LET a == results[k].annualized_diff
                claimed == hyper_funding_rate * multiplier - binance_funding_rate
            IN  /\ a.den > 0
                /\ a.num * (5 * multiplier) = claimed * 438 * a.den
                /\ (hyper_funding_rate = 1 /\ binance_funding_rate = 3 /\ multiplier = 8)
                       => a.num * 100 = 5475 * a.den

C16_Witness ==
    /\ fn = "merge"
    /\ pc = "done"
    /\ hyper_funding_rate = 1
    /\ binance_funding_rate = 3
    /\ multiplier = 8
    /\ Len(results) >= 1
    /\ results[1].annualized_diff.num * 100 = 5475 * results[1].annualized_diff.den

(* C17: get_hyperliquid_funding_history_paginated stops on failure only     *)
(* when the last max_retries + 1 responses were all failures.               *)
C17_FailureStopNeedsConsecutiveFailures ==
    (fn = "hyper" /\ pc = "done" /\ retries > max_retries) =>
        streak >= max_retries + 1

C19_PageLengthDecides ==
    [][/\ (fn = "hyper" /\ Len(all_records') > Len(all_records)) =>
            IF Len(all_records') - Len(all_records) >= max_records
            THEN /\ current_start' = Last(all_records').time + 1
                 /\ pc' = "loop"
            ELSE /\ pc' = "done"
                 /\ current_start' = current_start
       /\ (fn = "hyper" /\ pc = "done") => (pc' = "done" /\ attempts' = attempts)]_vars

C19_Witness ==
    /\ fn = "hyper"
    /\ pc = "done"
    /\ max_records = 2
    /\ kinds = {"data"}
    /\ attempts = 2
    /\ Len(all_records) = 3

(* C20: in the collectors' get_historical_funding_rates a first failed      *)
(* request does not end the retrieval: the loop goes on at the same cursor. *)
C20_CollectorsRetryFailures ==
    (fn \in {"bcoll", "hcoll"} /\ streak = 1) =>
        (pc = "loop" /\ current_start <= end_time)

MatchedHyper == {results[k].i + 1 : k \in 1..Len(results)}

MatchedBinance == {results[k].j + 1 : k \in 1..Len(results)}

(* C21: with both inputs sorted ascending, once the merge loop has returned *)
(* no unmatched venue-A record is within TIME_TOLERANCE_MS of an unmatched  *)
(* venue-B record.                                                          *)
C21_GreedyMergeMaximal ==
    (/\ fn = "merge"
     /\ pc = "done"
     /\ IsAscending(hyper_data)
     /\ IsAscending(binance_data)) =>
        \A a \in (1..Len(hyper_data)) \ MatchedHyper,
           b \in (1..Len(binance_data)) \ MatchedBinance :
            Abs(hyper_data[a] - binance_data[b]) > TIME_TOLERANCE_MS

C21_Witness ==
    /\ fn = "merge"
    /\ pc = "done"
    /\ IsAscending(hyper_data)
    /\ IsAscending(binance_data)
    /\ Len(hyper_data) = 2
    /\ Len(binance_data) = 2
    /\ Len(results) = 1
    /\ Abs(hyper_data[2] - binance_data[1]) <= TIME_TOLERANCE_MS
    /\ Abs(hyper_data[2] - binance_data[2]) <= TIME_TOLERANCE_MS

MergeIterations == i + j - Len(results)

(* C22: the merge loop terminates for all inputs, sorted or not: while in   *)
(* the loop some step is enabled, every pass that stays in the loop moves i *)
(* or j (or both) up by one and neither down, i and j stay within the       *)
(* series, and at most len(hyper_data) + len(binance_data) passes are made. *)
C22_MergeLoopTerminates ==
    /\ []((fn = "merge" /\ pc = "loop") =>
            /\ i <= Len(hyper_data)
            /\ j <= Len(binance_data)
            /\ MergeIterations <= Len(hyper_data) + Len(binance_data)
            /\ ENABLED (MergeMatch \/ MergeMatchDivideByZero \/ MergeSkipHyper
                          \/ MergeSkipBinance \/ MergeReturn))
    /\ [][(fn = "merge" /\ pc = "loop") =>
            \/ pc' \in {"done", "error"} /\ i' = i /\ j' = j
            \/ /\ pc' = "loop"
               /\ i' \in {i, i + 1}
               /\ j' \in {j, j + 1}
               /\ i' + j' > i + j]_vars

C22_Witness ==
    /\ fn = "merge"
    /\ pc = "done"
    /\ ~IsAscending(hyper_data)
    /\ Len(results) = 1
    /\ MergeIterations = 2
    /\ i = Len(hyper_data)

(* C23: in get_binance_funding_history and                                 *)
(* get_hyperliquid_funding_history_paginated the cursor never decreases,   *)
(* and it strictly increases on every successful non-empty page that does  *)
(* not end the run, whatever the source answers (a page whose last record  *)
(* lies below the cursor included).                                        *)
C23_CursorNeverDecreases ==
    [][(fn \in {"hyper", "binance"}) =>
           /\ current_start' >= current_start
           /\ (Len(all_records') > Len(all_records) /\ pc' = "loop")
                  => current_start' > current_start]_vars

====
